---- MODULE Spec2Model ----
(***************************************************************************)
(* Model of the request-classifier training pipeline of cloudflare-sentinel *)
(* (scripts/training) and of the inference contract it exports to:          *)
(*   - the hashing vectorizer configured by VECTORIZER_CONFIG               *)
(*     (scikit-learn HashingVectorizer, char_wb n-grams, MurmurHash3,       *)
(*      no sign alternation, no normalisation),                             *)
(*   - export_model, which writes the JSON model artifact,                  *)
(*   - the linear decision engine and the artifact loader that consume it.  *)
(***************************************************************************)
EXTENDS Integers, Sequences, FiniteSets, TLC

(***************************************************************************)
(* Generic helpers                                                          *)
(***************************************************************************)
Max(a, b) == IF a >= b THEN a ELSE b

Abs(a) == IF a < 0 THEN -a ELSE a

Range(s) == {s[i] : i \in DOMAIN s}

RECURSIVE SeqsUpTo(_, _)
\* all sequences over S of length at most n
SeqsUpTo(S, n) ==
  IF n = 0 THEN {<<>>}
  ELSE LET shorter == SeqsUpTo(S, n - 1)
       IN  shorter \cup {Append(s, c) : s \in {t \in shorter : Len(t) = n - 1}, c \in S}

(***************************************************************************)
(* Unsigned 32-bit arithmetic.  A 32-bit word is the pair <<hi, lo>> of its *)
(* 16-bit halves; every operation is reduced modulo 2^32 (overflow is       *)
(* discarded), as in the C implementation behind mmh3 and scikit-learn.     *)
(***************************************************************************)
W16 == 65536

RECURSIVE XorBits(_, _, _)
XorBits(a, b, n) ==
  IF n = 0 THEN 0
  ELSE (((a % 2) + (b % 2)) % 2) + 2 * XorBits(a \div 2, b \div 2, n - 1)

Xor16(a, b) == XorBits(a, b, 16)

Xor32(a, b) == <<Xor16(a[1], b[1]), Xor16(a[2], b[2])>>

RECURSIVE Pow2(_)
Pow2(r) == IF r = 0 THEN 1 ELSE 2 * Pow2(r - 1)

\* rotate left by r bits, 0 < r < 16
Rotl32(a, r) ==
  <<((a[1] * Pow2(r)) % W16) + (a[2] \div Pow2(16 - r)),
    ((a[2] * Pow2(r)) % W16) + (a[1] \div Pow2(16 - r))>>

\* logical shift right by r bits, 0 < r <= 16
Shr32(a, r) ==
  <<a[1] \div Pow2(r),
    ((a[2] \div Pow2(r)) + (a[1] % Pow2(r)) * Pow2(16 - r)) % W16>>

\* mutant: the carry out of bit 31 kept (overflow promoted, not discarded)
Add32Promoted(a, b) ==
  LET lo == a[2] + b[2]
  IN  <<a[1] + b[1] + (lo \div W16), lo % W16>>

Add32(a, b) ==
  LET lo == a[2] + b[2]
  IN  <<(a[1] + b[1] + (lo \div W16)) % W16, lo % W16>>

\* the full 32-bit product of two 16-bit numbers, by bytes
Mul16(x, y) ==
  LET x0 == x % 256   x1 == x \div 256
      y0 == y % 256   y1 == y \div 256
      m  == x1 * y0 + x0 * y1
      t  == (m % 256) * 256 + x0 * y0
  IN  <<(x1 * y1 + (m \div 256) + (t \div W16)) % W16, t % W16>>

\* the low 32 bits of the product of two 32-bit words
Mul32(a, b) ==
  LET p == Mul16(a[2], b[2])
  IN  <<(p[1] + Mul16(a[1], b[2])[2] + Mul16(a[2], b[1])[2]) % W16, p[2]>>

(***************************************************************************)
(* MurmurHash3 x86 32-bit (mmh3.hash(text, 0, signed=False); scikit-learn's *)
(* murmurhash3_bytes_s32 is the same value read as a signed int32).         *)
(***************************************************************************)
c1 == <<52382, 11601>>      \* 0xcc9e2d51
c2 == <<7047, 13715>>       \* 0x1b873593
n5 == <<58964, 27492>>      \* 0xe6546b64
f1 == <<34283, 51819>>      \* 0x85ebca6b
f2 == <<49842, 44597>>      \* 0xc2b2ae35

\* the key mix applied to a 4-byte block and to the tail
MixK(k) == Mul32(Rotl32(Mul32(k, c1), 15), c2)

\* one body round: h ^= k; h = rotl(h, 13); h = h * 5 + 0xe6546b64
MixH(h, k) == Add32(Mul32(Rotl32(Xor32(h, MixK(k)), 13), <<0, 5>>), n5)

\* the little-endian 32-bit word of bytes data[i+1 .. i+4]
Block(data, i) == <<data[i + 4] * 256 + data[i + 3], data[i + 2] * 256 + data[i + 1]>>

RECURSIVE Body(_, _, _)
\* the running hash after the 4-byte blocks from offset i on
Body(data, i, h) ==
  IF i + 4 > Len(data) THEN h
  ELSE Body(data, i + 4, MixH(h, Block(data, i)))

\* the 1..3 bytes left after the last whole block: no MixH round for them
Tail32(data, h) ==
  LET n    == Len(data)
      base == n - (n % 4)
      k    == << IF n % 4 >= 3 THEN data[base + 3] ELSE 0,
                 (IF n % 4 >= 2 THEN data[base + 2] * 256 ELSE 0)
                   + (IF n % 4 >= 1 THEN data[base + 1] ELSE 0) >>
  IN  IF n % 4 = 0 THEN h ELSE Xor32(h, MixK(k))

\* finalisation: xor with the length, then the avalanche
Fmix32(h0, n) ==
  LET h1 == Xor32(h0, <<n \div W16, n % W16>>)
      h2 == Mul32(Xor32(h1, Shr32(h1, 16)), f1)
      h3 == Mul32(Xor32(h2, Shr32(h2, 13)), f2)
  IN  Xor32(h3, Shr32(h3, 16))

murmurhash3_32(data, seed) == Fmix32(Tail32(data, Body(data, 0, seed)), Len(data))

\* UTF-8 encoding of one code point below 0x10000
Utf8Char(c) ==
  IF c < 128 THEN <<c>>
  ELSE IF c < 2048 THEN <<192 + (c \div 64), 128 + (c % 64)>>
  ELSE <<224 + (c \div 4096), 128 + ((c \div 64) % 64), 128 + (c % 64)>>

RECURSIVE Utf8(_)
\* str.encode("utf-8")
Utf8(s) == IF Len(s) = 0 THEN <<>> ELSE Utf8Char(Head(s)) \o Utf8(Tail(s))

(***************************************************************************)
(* The vectorizer: HashingVectorizer built from VECTORIZER_CONFIG.  Texts  *)
(* are sequences of code points.                                            *)
(***************************************************************************)
\* mutant: n-grams of one and two characters
ConfigShortNgrams ==
  [n_features     |-> 4096,
   analyzer       |-> "char_wb",
   ngram_range    |-> <<1, 2>>,
   alternate_sign |-> FALSE,
   norm           |-> "None"]

\* mutant: the analyzer left at "char" (n-grams over the whole text)
ConfigCharAnalyzer ==
  [n_features     |-> 4096,
   analyzer       |-> "char",
   ngram_range    |-> <<3, 5>>,
   alternate_sign |-> FALSE,
   norm           |-> "None"]

VECTORIZER_CONFIG ==
  [n_features     |-> 4096,
   analyzer       |-> "char_wb",
   ngram_range    |-> <<3, 5>>,
   alternate_sign |-> FALSE,
   norm           |-> "None"]

\* create_vectorizer(): the estimator's parameters are the configuration's
create_vectorizer == VECTORIZER_CONFIG

IsSpace(c) == c \in {9, 10, 11, 12, 13, 32}

\* str.lower() on the letters A-Z (HashingVectorizer's lowercase=True default)
Lower(c) == IF c >= 65 /\ c <= 90 THEN c + 32 ELSE c

LowerText(s) == [i \in 1..Len(s) |-> Lower(s[i])]

RECURSIVE SkipSpaces(_)
\* s without its leading whitespace
SkipSpaces(s) ==
  IF Len(s) > 0 /\ IsSpace(Head(s)) THEN SkipSpaces(Tail(s)) ELSE s

RECURSIVE NormalizeSpaces(_)
\* re.sub(r"\s\s+", " ", s): a run of two or more whitespace characters
\* becomes one space; a single whitespace character is kept as it is
NormalizeSpaces(s) ==
  IF Len(s) = 0 THEN <<>>
  ELSE IF Len(s) >= 2 /\ IsSpace(s[1]) /\ IsSpace(s[2])
       THEN <<32>> \o NormalizeSpaces(SkipSpaces(s))
       ELSE <<Head(s)>> \o NormalizeSpaces(Tail(s))

RECURSIVE FirstWord(_)
\* the leading run of non-whitespace characters
FirstWord(s) ==
  IF Len(s) = 0 \/ IsSpace(Head(s)) THEN <<>>
  ELSE <<Head(s)>> \o FirstWord(Tail(s))

RECURSIVE SplitEvery(_)
\* mutant: str.split(" ")-like, cutting at every whitespace character and
\* keeping the empty pieces
SplitEvery(s) ==
  LET w == FirstWord(s)
  IN  IF Len(w) = Len(s) THEN <<w>>
      ELSE <<w>> \o SplitEvery(SubSeq(s, Len(w) + 2, Len(s)))

RECURSIVE Split(_)
\* str.split(): the maximal runs of non-whitespace characters, in order
Split(s) ==
  LET t == SkipSpaces(s)
      w == FirstWord(t)
  IN  IF Len(t) = 0 THEN <<>>
      ELSE <<w>> \o Split(SubSeq(t, Len(w) + 1, Len(t)))

\* the slice w[offset : offset + n], cut at the end of w as Python cuts it
Slice(w, offset, n) ==
  SubSeq(w, offset + 1, IF offset + n <= Len(w) THEN offset + n ELSE Len(w))

\* one call ngrams_append(w[offset : offset + n]), with the loop variables
\* of the call: the word's index (0: no word), n and offset
Gram(k, w, n, offset) ==
  [word |-> k, n |-> n, offset |-> offset, tok |-> Slice(w, offset, n)]

RECURSIVE Slide(_, _, _, _)
\* offset = 0; append; while offset + n < w_len: offset += 1; append
Slide(k, w, n, offset) ==
  <<Gram(k, w, n, offset)>> \o
    (IF offset + n < Len(w) THEN Slide(k, w, n, offset + 1) ELSE <<>>)

RECURSIVE WordLoopNoBreak(_, _, _, _)
\* mutant: the loop over n without "if offset == 0: break"
WordLoopNoBreak(k, w, n, max_n) ==
  IF n > max_n THEN <<>>
  ELSE Slide(k, w, n, 0) \o WordLoopNoBreak(k, w, n + 1, max_n)

RECURSIVE WordLoop(_, _, _, _)
\* for n in range(n, max_n + 1): ...; if offset == 0: break
WordLoop(k, w, n, max_n) ==
  IF n > max_n THEN <<>>
  ELSE LET grams == Slide(k, w, n, 0)
           offset == grams[Len(grams)].offset
       IN  grams \o (IF offset = 0 THEN <<>> ELSE WordLoop(k, w, n + 1, max_n))

RECURSIVE WordsLoop(_, _, _)
\* for w in text_document.split(): w = " " + w + " "; ...
WordsLoop(words, k, range) ==
  IF k > Len(words) THEN <<>>
  ELSE WordLoop(k, <<32>> \o words[k] \o <<32>>, range[1], range[2])
         \o WordsLoop(words, k + 1, range)

\* _char_wb_ngrams
char_wb_ngrams(text, range) == WordsLoop(Split(NormalizeSpaces(text)), 1, range)

RECURSIVE CharLoopI(_, _, _)
\* for i in range(text_len - n + 1): ngrams_append(text_document[i : i + n])
CharLoopI(t, n, i) ==
  IF i >= Len(t) - n + 1 THEN <<>>
  ELSE <<Gram(0, t, n, i)>> \o CharLoopI(t, n, i + 1)

RECURSIVE CharLoop(_, _, _)
\* for n in range(min_n, min(max_n + 1, text_len + 1)): ...
CharLoop(t, n, max_n) ==
  IF n > max_n \/ n > Len(t) THEN <<>>
  ELSE CharLoopI(t, n, 0) \o CharLoop(t, n + 1, max_n)

\* _char_ngrams (ngram_range starting above 1)
char_ngrams(text, range) == CharLoop(NormalizeSpaces(text), range[1], range[2])

\* build_analyzer(): preprocess (lowercase), then the n-grams of the analyzer
Analyze(config, doc) ==
  IF config.analyzer = "char_wb" THEN char_wb_ngrams(LowerText(doc), config.ngram_range)
  ELSE char_ngrams(LowerText(doc), config.ngram_range)

\* murmurhash3_bytes_s32: the 32-bit hash read as a signed int32
ToSigned(u) ==
  IF u[1] >= 32768 THEN (u[1] - W16) * W16 + u[2] ELSE u[1] * W16 + u[2]

Seed == <<0, 0>>

IntMin == -2147483647 - 1

\* mutant: the remainder of the signed hash without abs(), as C computes it
FeatureIndexNoAbs(h, n_features) ==
  IF h = -2147483647 - 1 THEN 0
  ELSE IF h < 0 THEN -((-h) % n_features) ELSE h % n_features

\* _hashing_fast.transform: the column of a token whose signed hash is h
FeatureIndex(h, n_features) ==
  IF h = IntMin THEN (2147483647 - (n_features - 1)) % n_features
  ELSE Abs(h) % n_features

\* mutant: the sign alternation always on (scikit-learn's default)
FeatureValueAlternating(h, alternate_sign) == IF h < 0 THEN -1 ELSE 1

\* the value a token adds: 1, negated for h < 0 only under alternate_sign
FeatureValue(h, alternate_sign) ==
  IF alternate_sign /\ h < 0 THEN -1 ELSE 1

RECURSIVE SumAt(_, _, _)
\* the sum of the values whose index is i
SumAt(idx, vals, i) ==
  IF Len(idx) = 0 THEN 0
  ELSE (IF Head(idx) = i THEN Head(vals) ELSE 0) + SumAt(Tail(idx), Tail(vals), i)

\* csr_matrix((values, indices, indptr), shape=(1, n_features)) followed by
\* sum_duplicates(), as the dense row
SumDuplicates(idx, vals, n_features) ==
  LET cols == Range(idx)
  IN  [i \in 0..(n_features - 1) |-> IF i \in cols THEN SumAt(idx, vals, i) ELSE 0]

\* the signed hash of a token: murmurhash3_bytes_s32(token.encode("utf-8"), 0)
TokenHash(tok) == ToSigned(murmurhash3_32(Utf8(tok), Seed))

RECURSIVE TokenColumns(_, _)
\* the columns of a whole n-gram list, in order
TokenColumns(config, grams) ==
  IF Len(grams) = 0 THEN <<>>
  ELSE <<FeatureIndex(TokenHash(Head(grams).tok), config.n_features)>>
         \o TokenColumns(config, Tail(grams))

RECURSIVE TokenValues(_, _)
\* the values of a whole n-gram list, in order
TokenValues(config, grams) ==
  IF Len(grams) = 0 THEN <<>>
  ELSE <<FeatureValue(TokenHash(Head(grams).tok), config.alternate_sign)>>
         \o TokenValues(config, Tail(grams))

(***************************************************************************)
(* State                                                                    *)
(***************************************************************************)
VARIABLES
  vectorizer,  \* the HashingVectorizer's parameters
  doc,         \* the text being transformed
  vpc,         \* where transform stands: "idle", "analyze", "hash", "done"
  ngrams,      \* the analyzer's output, each n-gram with its loop variables
  indices,     \* FeatureHasher: the column of each token hashed so far
  values,      \* FeatureHasher: the value of each token hashed so far
  X,           \* the feature vector (<<>> until it is built)
  epc,         \* where main stands: "idle", "start", "fit", "export", "done"
  clf,         \* the fitted classifier: classes_, coef_, intercept_
  model,       \* the dict export_model writes (<<>> until it is built)
  file,        \* the JSON document export_model dumps (<<>>: not written)
  model_type,  \* args.model: "logistic" or "sgd"
  artifact,    \* the artifact handed to the inference engine
  estatus,     \* the engine: "idle", "new", "ready", "failed"
  loaded,      \* the model the engine scores with (<<>>: none)
  error,       \* "none", "ConfigMismatchError" or "ModelLoadError"
  scored,      \* whether a scoring step has taken place
  scores,      \* the current call's score per class (<<>>: none)
  label,       \* the current call's predicted label ("": none)
  htext,       \* verify_hash: the test case, a sequence of code points
  data,        \* its UTF-8 bytes
  hpc,         \* where the hash stands: "idle", "start", "body", "fmix", "done"
  h1,          \* the running hash, a 32-bit word
  pos,         \* the number of bytes consumed
  interm,      \* the intermediate words of the last step
  hash_value,  \* what verify_hash prints for the test case
  heap,        \* the engine's model objects, by reference
  current,     \* the reference inference calls start from
  rpc,         \* the reload: "idle", "classes", "weights", "bias", "swap"
  staged,      \* the reference of the object the reload fills
  incoming,    \* the artifact being reloaded (<<>>: none)
  reloads,     \* the number of reloads started
  calls,       \* per inference call: pc, ref, seen, doc, fv, scores, label
  samples_dir, \* prepare_dataset: the lines of each samples file, by label
  raw,         \* args.raw
  ppc,         \* where prepare_dataset stands: "idle", "files", "shuffle", "write", "done"
  pending,     \* the labels of the files not yet processed
  all_samples, \* the records collected
  origin,      \* for each record, the file and the sample it was made from
  dataset,     \* the lines written to dataset.jsonl
  count,       \* generate_safe_requests: args.count
  requests,    \* the set of requests generated
  gpc,         \* where generate_safe_requests stands: "idle", "loop", "done"
  output,      \* the output file: its total and its request lines (<<>>: not written)
  sources,     \* download_datasets: per source its payload file and what goes wrong
  repos,       \* the temporary repositories that exist under data/
  dpc,         \* where download_datasets stands: "idle", "source1", "source2", "write", "cleanup", "done"
  all_suspicious, \* the payloads collected
  suspicious_txt  \* suspicious.txt: its total and its payload lines (<<>>: not written)

vecVars == <<doc, vpc, ngrams, indices, values, X>>

trainVars == <<epc, clf, model, file, model_type>>

engineVars == <<artifact, estatus, loaded, error, scored, scores, label>>

hashVars == <<htext, data, hpc, h1, pos, interm, hash_value>>

\* the variables of the other scripts
reloadVars == <<heap, current, rpc, staged, incoming, reloads, calls>>

prepVars == <<samples_dir, raw, ppc, pending, all_samples, origin, dataset>>

genVars == <<count, requests, gpc, output>>

dlVars == <<sources, repos, dpc, all_suspicious, suspicious_txt>>

auxVars == <<hashVars, reloadVars, prepVars, genVars, dlVars>>

vars == <<vectorizer, vecVars, trainVars, engineVars, auxVars>>

EngineIdle ==
  /\ artifact = <<>>
  /\ estatus = "idle"
  /\ loaded = <<>>
  /\ error = "none"
  /\ scored = FALSE
  /\ scores = <<>>
  /\ label = ""

HashIdle ==
  /\ htext = <<>>
  /\ data = <<>>
  /\ hpc = "idle"
  /\ h1 = <<0, 0>>
  /\ pos = 0
  /\ interm = {}
  /\ hash_value = <<0, 0>>

ReloadIdle ==
  /\ heap = <<>>
  /\ current = 0
  /\ rpc = "idle"
  /\ staged = 0
  /\ incoming = <<>>
  /\ reloads = 0
  /\ calls = <<>>

PrepIdle ==
  /\ samples_dir = <<>>
  /\ raw = FALSE
  /\ ppc = "idle"
  /\ pending = {}
  /\ all_samples = <<>>
  /\ origin = <<>>
  /\ dataset = <<>>

GenIdle ==
  /\ count = 0
  /\ requests = {}
  /\ gpc = "idle"
  /\ output = <<>>

DlIdle ==
  /\ sources = <<>>
  /\ repos = {}
  /\ dpc = "idle"
  /\ all_suspicious = <<>>
  /\ suspicious_txt = <<>>

AuxIdle == HashIdle /\ ReloadIdle /\ PrepIdle /\ GenIdle /\ DlIdle

\* the training pipeline and the engine at rest
PipelineIdle ==
  /\ vectorizer = <<>>
  /\ doc = <<>>
  /\ vpc = "idle"
  /\ ngrams = <<>>
  /\ indices = <<>>
  /\ values = <<>>
  /\ X = <<>>
  /\ epc = "idle"
  /\ clf = <<>>
  /\ model = <<>>
  /\ file = <<>>
  /\ model_type = "logistic"
  /\ EngineIdle

pipelineVars == <<vectorizer, vecVars, trainVars, engineVars>>

(***************************************************************************)
(* vectorizer.transform([doc]), one document                                *)
(***************************************************************************)
\* analyzer(doc): the whole n-gram list is built before any token is hashed
AnalyzeDoc ==
  /\ vpc = "analyze"
  /\ ngrams' = Analyze(vectorizer, doc)
  /\ vpc' = "hash"
  /\ UNCHANGED <<doc, indices, values, X>>

\* one round of the hashing loop: the next token's column and value
HashToken ==
  /\ vpc = "hash"
  /\ Len(indices) < Len(ngrams)
  /\ LET f == ngrams[Len(indices) + 1].tok
         h == TokenHash(f)
     IN  /\ indices' = Append(indices, FeatureIndex(h, vectorizer.n_features))
         /\ values' = Append(values, FeatureValue(h, vectorizer.alternate_sign))
  /\ UNCHANGED <<doc, vpc, ngrams, X>>

\* after the last token: the matrix row; norm is None, so no normalize()
BuildRow ==
  /\ vpc = "hash"
  /\ Len(indices) = Len(ngrams)
  /\ vectorizer.norm = "None"
  /\ X' = SumDuplicates(indices, values, vectorizer.n_features)
  /\ vpc' = "done"
  /\ UNCHANGED <<doc, ngrams, indices, values>>

(***************************************************************************)
(* Specification of the vectorizer alone: any document over Alphabet of at *)
(* most MaxDocLen characters.                                               *)
(***************************************************************************)
MaxDocLen == 4

\* space, tab, 'a', 'B'
Alphabet == {32, 9, 97, 66}

Docs == SeqsUpTo(Alphabet, MaxDocLen)

InitVec ==
  /\ vectorizer = create_vectorizer
  /\ doc \in Docs
  /\ vpc = "analyze"
  /\ ngrams = <<>>
  /\ indices = <<>>
  /\ values = <<>>
  /\ X = <<>>
  /\ epc = "idle"
  /\ clf = <<>>
  /\ model = <<>>
  /\ file = <<>>
  /\ model_type = "logistic"
  /\ EngineIdle
  /\ AuxIdle

NextVec ==
  \/ AnalyzeDoc /\ UNCHANGED <<vectorizer, trainVars, engineVars, auxVars>>
  \/ HashToken /\ UNCHANGED <<vectorizer, trainVars, engineVars, auxVars>>
  \/ BuildRow /\ UNCHANGED <<vectorizer, trainVars, engineVars, auxVars>>

SpecVec == InitVec /\ [][NextVec]_vars

(***************************************************************************)
(* Training: main() of train_classifier.py.  The solver is not modelled:    *)
(* train_model yields any classifier of the shape scikit-learn gives, one   *)
(* coefficient row for two classes and one row per class otherwise, each    *)
(* with one column per column of the training matrix.                       *)
(***************************************************************************)
MaxCoef == 1

\* the coefficients and intercepts drawn: the extremes and zero
CoefValues == {-MaxCoef, 0, MaxCoef}

\* the columns that may carry a non-zero coefficient in this model
ActiveCols == {0, 4095}

\* classes_ is sorted (numpy.unique of the labels)
ClassLists == {<<"attack", "safe">>, <<"safe", "suspicious">>, <<"safe", "sqli", "xss">>}

\* a row of n columns given by its non-zero entries
Row(n, nz) == [i \in 0..(n - 1) |-> IF i \in DOMAIN nz THEN nz[i] ELSE 0]

\* the coefficient rows drawn when the row is one of many (a single column)
NarrowRows(n) == {Row(n, [i \in {0} |-> v]) : v \in CoefValues}

\* the coefficient rows drawn for a two-class classifier
WideRows(n) == {Row(n, nz) : nz \in [ActiveCols -> CoefValues]}

\* the classifiers train_model may return for a training matrix of n columns
Classifiers(n) ==
  LET binary == {[classes_ |-> c, coef_ |-> <<w>>, intercept_ |-> <<b>>] :
                   c \in {l \in ClassLists : Len(l) = 2}, w \in WideRows(n), b \in CoefValues}
      multi  == UNION {{[classes_ |-> c, coef_ |-> w, intercept_ |-> b] :
                          w \in [1..Len(c) -> NarrowRows(n)],
                          b \in [1..Len(c) -> {-MaxCoef, MaxCoef}]} :
                       c \in {l \in ClassLists : Len(l) > 2}}
  IN  binary \cup multi

\* clf.decision_function(x) of a two-class classifier: w.x + b
decision_function(c, x) ==
  LET S == {i \in DOMAIN x : x[i] # 0}
      RECURSIVE Sum(_)
      Sum(T) == IF T = {} THEN 0
                ELSE LET i == CHOOSE j \in T : TRUE
                     IN  (c.coef_[1][i] * x[i]) + Sum(T \ {i})
  IN  Sum(S) + c.intercept_[1]

\* clf.predict(x) of a two-class classifier: classes_[1] if the decision
\* function is positive, classes_[0] otherwise
predict(c, x) == IF decision_function(c, x) > 0 THEN c.classes_[2] ELSE c.classes_[1]

\* the choices of --model
ModelTypes == {"logistic", "sgd"}

\* train_model: LogisticRegression or SGDClassifier, fitted; any other model
\* type raises ValueError and yields no classifier
train_model(n, t) == IF t \in ModelTypes THEN Classifiers(n) ELSE {}

\* mutant: the row copied where it is to be negated
NegKept(row) == row

\* numpy's unary minus on a row
Neg(row) == [i \in DOMAIN row |-> -row[i]]

\* mutant: the two-class branch with the intercept copied, not negated
export_model_bias_copied(c, v) ==
  [type    |-> "logistic_regression",
   classes |-> c.classes_,
   weights |-> IF Len(c.classes_) = 2 THEN <<Neg(c.coef_[1]), c.coef_[1]>> ELSE c.coef_,
   bias    |-> IF Len(c.classes_) = 2 THEN <<c.intercept_[1], c.intercept_[1]>>
               ELSE c.intercept_,
   vectorizer |-> [nFeatures |-> v.n_features, ngramRange |-> v.ngram_range,
                   analyzer |-> v.analyzer]]

\* mutant: no two-class branch, coef_ and intercept_ written as they are
export_model_passthrough(c, v) ==
  [type    |-> "logistic_regression",
   classes |-> c.classes_,
   weights |-> c.coef_,
   bias    |-> c.intercept_,
   vectorizer |-> [nFeatures |-> v.n_features, ngramRange |-> v.ngram_range,
                   analyzer |-> v.analyzer]]

\* export_model: the dict that is dumped as JSON
export_model(c, v) ==
  LET classes == c.classes_
      weights == IF Len(classes) = 2 THEN <<Neg(c.coef_[1]), c.coef_[1]>> ELSE c.coef_
      bias    == IF Len(classes) = 2 THEN <<-c.intercept_[1], c.intercept_[1]>>
                 ELSE c.intercept_
  IN  [type    |-> "logistic_regression",
       classes |-> classes,
       weights |-> weights,
       bias    |-> bias,
       vectorizer |-> [nFeatures |-> v.n_features, ngramRange |-> v.ngram_range,
                       analyzer |-> v.analyzer]]

RECURSIVE Digits(_)
\* the decimal digits of a natural number, as character codes
Digits(n) == IF n < 10 THEN <<48 + n>> ELSE Append(Digits(n \div 10), 48 + (n % 10))

\* mutant: the number written without its sign
FloatReprUnsigned(v) == Digits(Abs(v)) \o <<46, 48>>

\* json.dump of a float: float.__repr__, here of a float with an integral
\* value ("-12.0", "0.0", "105.0")
FloatRepr(v) == (IF v < 0 THEN <<45>> ELSE <<>>) \o Digits(Abs(v)) \o <<46, 48>>

\* json.dump of an int
IntRepr(v) == (IF v < 0 THEN <<45>> ELSE <<>>) \o Digits(Abs(v))

\* json.dump of a row (tolist() of a numpy row, columns 0..n-1): a JSON array
\* of number literals
FloatList(row) ==
  LET n == Cardinality(DOMAIN row)
  IN  [k \in 1..n |-> FloatRepr(row[k - 1])]

\* json.dump(model, f): the document written, every number as its literal
json_dump(m) ==
  [type    |-> m.type,
   classes |-> m.classes,
   weights |-> [k \in 1..Len(m.weights) |-> FloatList(m.weights[k])],
   bias    |-> [k \in 1..Len(m.bias) |-> FloatRepr(m.bias[k])],
   vectorizer |-> [nFeatures  |-> IntRepr(m.vectorizer.nFeatures),
                   ngramRange |-> [k \in 1..Len(m.vectorizer.ngramRange) |->
                                     IntRepr(m.vectorizer.ngramRange[k])],
                   analyzer   |-> m.vectorizer.analyzer]]

\* vectorizer = create_vectorizer()
CreateVectorizer ==
  /\ epc = "start"
  /\ vectorizer' = create_vectorizer
  /\ epc' = "fit"
  /\ UNCHANGED <<clf, model, file, model_type, vecVars, engineVars, auxVars>>

\* X = vectorizer.fit_transform(texts); clf = train_model(X_train, y_train)
TrainModel ==
  /\ epc = "fit"
  /\ clf' \in train_model(vectorizer.n_features, model_type)
  /\ epc' = "export"
  /\ UNCHANGED <<vectorizer, model, file, model_type, vecVars, engineVars, auxVars>>

\* export_model(clf, vectorizer, args.output)
ExportModel ==
  /\ epc = "export"
  /\ model' = export_model(clf, vectorizer)
  /\ file' = json_dump(model')
  /\ epc' = "done"
  /\ UNCHANGED <<vectorizer, clf, model_type, vecVars, engineVars, auxVars>>

InitTrain ==
  /\ vectorizer = <<>>
  /\ epc = "start"
  /\ clf = <<>>
  /\ model = <<>>
  /\ file = <<>>
  /\ model_type \in ModelTypes
  /\ doc = <<>>
  /\ vpc = "idle"
  /\ ngrams = <<>>
  /\ indices = <<>>
  /\ values = <<>>
  /\ X = <<>>
  /\ EngineIdle
  /\ AuxIdle

NextTrain == CreateVectorizer \/ TrainModel \/ ExportModel

SpecTrain == InitTrain /\ [][NextTrain]_vars

(***************************************************************************)
(* The inference side: the artifact loader and the linear decision engine.  *)
(* Their code is not among the training scripts; they are modelled from the *)
(* specification (sections 4.4, 4.5 and 7).  The engine vectorizes with the *)
(* vectorizer of the training side.                                         *)
(***************************************************************************)
\* the configuration the engine is compiled for
EngineConfig == [nFeatures |-> 4096, ngramRange |-> <<3, 5>>, analyzer |-> "char_wb"]

ArtifactFields == {"type", "classes", "weights", "bias", "vectorizer"}

\* mutant: the validation without the comparison of the rows' lengths
WellFormedNoRowCheck(a) ==
  /\ ArtifactFields \subseteq DOMAIN a
  /\ Len(a.classes) >= 2
  /\ Len(a.weights) = Len(a.classes)
  /\ Len(a.bias) = Len(a.classes)

\* the artifact has every field, at least two classes, one weight row and one
\* bias per class, and every row has the engine's number of columns
WellFormed(a) ==
  /\ ArtifactFields \subseteq DOMAIN a
  /\ Len(a.classes) >= 2
  /\ Len(a.weights) = Len(a.classes)
  /\ Len(a.bias) = Len(a.classes)
  /\ \A k \in 1..Len(a.weights) : DOMAIN a.weights[k] = 0..(EngineConfig.nFeatures - 1)

\* mutant: the loader without the comparison of the vectorizer configuration
DeserializeNoConfigCheck(a) ==
  IF ~(ArtifactFields \subseteq DOMAIN a) THEN "ModelLoadError"
  ELSE IF ~WellFormed(a) THEN "ModelLoadError"
  ELSE "ok"

\* the loader's verdict on an artifact
Deserialize(a) ==
  IF ~(ArtifactFields \subseteq DOMAIN a) THEN "ModelLoadError"
  ELSE IF a.vectorizer # EngineConfig THEN "ConfigMismatchError"
  ELSE IF ~WellFormed(a) THEN "ModelLoadError"
  ELSE "ok"

RECURSIVE DotOver(_, _, _)
\* the products w[i] * x[i] over the columns of S, added in ascending order
DotOver(w, x, S) ==
  IF S = {} THEN 0
  ELSE LET i == CHOOSE j \in S : \A l \in S : j <= l
       IN  w[i] * x[i] + DotOver(w, x, S \ {i})

\* the columns where x is not zero; the others add nothing to a dot product
Support(x) == {i \in DOMAIN x : x[i] # 0}

\* score[c] = dot(weights[c], x) + bias[c]
Scores(m, x) ==
  LET S == Support(x)
  IN  [c \in 1..Len(m.classes) |-> DotOver(m.weights[c], x, S) + m.bias[c]]

RECURSIVE ArgMaxLastFrom(_, _, _)
\* mutant: on a tie the later class wins
ArgMaxLastFrom(sc, k, best) ==
  IF k > Len(sc) THEN best
  ELSE ArgMaxLastFrom(sc, k + 1, IF sc[k] >= sc[best] THEN k ELSE best)

RECURSIVE ArgMaxFrom(_, _, _)
\* the scan for the maximum: a later class replaces the best only if it is
\* strictly greater, so the lowest index wins a tie
ArgMaxFrom(sc, k, best) ==
  IF k > Len(sc) THEN best
  ELSE ArgMaxFrom(sc, k + 1, IF sc[k] > sc[best] THEN k ELSE best)

ArgMax(sc) == ArgMaxFrom(sc, 2, 1)

\* the unsigned hash modulo n (the specification's "hash mod n_features")
HashMod(u, n) == (((u[1] % n) * (W16 % n)) + (u[2] % n)) % n

\* "union select", "hello world", "nio"
UnionSelect == <<117, 110, 105, 111, 110, 32, 115, 101, 108, 101, 99, 116>>

HelloWorld == <<104, 101, 108, 108, 111, 32, 119, 111, 114, 108, 100>>

Nio == <<110, 105, 111>>

\* the documents classified: "", "a", "a a", "B", and the two scenario texts
EngineDocs == {<<>>, <<97>>, <<97, 32, 97>>, <<66>>, UnionSelect, HelloWorld}

MakeModel(classes, weights, bias, config) ==
  [type |-> "logistic_regression", classes |-> classes, weights |-> weights,
   bias |-> bias, vectorizer |-> config]

\* scenario B of the specification: the only non-zero weights are -5 ("safe")
\* and +5 ("attack") at column hash("nio") mod 4096
ScenarioColumn == HashMod(murmurhash3_32(Utf8(Nio), Seed), EngineConfig.nFeatures)

ScenarioModel ==
  MakeModel(<<"safe", "attack">>,
            <<Row(EngineConfig.nFeatures, [i \in {ScenarioColumn} |-> -5]),
              Row(EngineConfig.nFeatures, [i \in {ScenarioColumn} |-> 5])>>,
            <<0, 0>>, EngineConfig)

\* the column of the token " a ", where the drawn models carry their weights
EngineCols == {FeatureIndex(TokenHash(<<32, 97, 32>>), EngineConfig.nFeatures)}

\* the weights and biases drawn for the engine's models
EngineValues == {-MaxCoef, 0, MaxCoef}

EngineRows == {Row(EngineConfig.nFeatures, nz) : nz \in [EngineCols -> EngineValues]}

\* well-formed models: two classes with any drawn rows and biases, three
\* classes with any drawn biases
ValidModels ==
  {MakeModel(<<"safe", "attack">>, w, b, EngineConfig) :
     w \in [1..2 -> EngineRows], b \in [1..2 -> EngineValues]}
  \cup
  {MakeModel(<<"safe", "sqli", "xss">>,
             [k \in 1..3 |-> Row(EngineConfig.nFeatures, <<>>)], b, EngineConfig) :
     b \in [1..3 -> EngineValues]}
  \cup {ScenarioModel}

\* artifacts declaring another vectorizer configuration
MismatchedArtifacts ==
  { MakeModel(<<"safe", "attack">>, [k \in 1..2 |-> Row(2048, <<>>)], <<0, 1>>,
              [EngineConfig EXCEPT !.nFeatures = 2048]),
    [ScenarioModel EXCEPT !.vectorizer.nFeatures = 2048],
    [ScenarioModel EXCEPT !.vectorizer.ngramRange = <<1, 3>>],
    [ScenarioModel EXCEPT !.vectorizer.analyzer = "char"] }

\* artifacts that are malformed
MalformedArtifacts ==
  { [ScenarioModel EXCEPT !.bias = <<0>>],
    [ScenarioModel EXCEPT !.weights[2] = Row(4095, <<>>)],
    [ScenarioModel EXCEPT !.weights[1] = Row(4097, <<>>)],
    [ScenarioModel EXCEPT !.classes = <<"safe", "sqli", "xss">>],
    [ScenarioModel EXCEPT !.weights = <<Row(4096, <<>>)>>],
    [type |-> "logistic_regression", classes |-> <<"safe", "attack">>] }

Artifacts == ValidModels \cup MismatchedArtifacts \cup MalformedArtifacts

\* load: the artifact becomes the engine's model only if the loader accepts it
LoadModel ==
  /\ estatus = "new"
  /\ LET verdict == Deserialize(artifact)
     IN  IF verdict = "ok"
         THEN /\ loaded' = artifact
              /\ estatus' = "ready"
              /\ error' = "none"
         ELSE /\ loaded' = <<>>
              /\ estatus' = "failed"
              /\ error' = verdict
  /\ UNCHANGED <<artifact, scored, scores, label, vectorizer, vecVars, trainVars, auxVars>>

\* one inference call on a loaded model: vectorize, score, take the argmax
Classify ==
  /\ estatus = "ready"
  /\ vpc = "idle"
  /\ \E d \in EngineDocs :
       /\ doc' = d
       /\ ngrams' = Analyze(vectorizer, d)
       /\ indices' = TokenColumns(vectorizer, ngrams')
       /\ values' = TokenValues(vectorizer, ngrams')
       /\ X' = SumDuplicates(indices', values', vectorizer.n_features)
       /\ vpc' = "done"
       /\ scores' = Scores(loaded, X')
       /\ label' = loaded.classes[ArgMax(scores')]
       /\ scored' = TRUE
  /\ UNCHANGED <<artifact, estatus, loaded, error, vectorizer, trainVars, auxVars>>

\* the call returns: its document, tokens, feature vector and prediction are
\* discarded
Return ==
  /\ estatus = "ready"
  /\ vpc = "done"
  /\ doc' = <<>>
  /\ ngrams' = <<>>
  /\ indices' = <<>>
  /\ values' = <<>>
  /\ X' = <<>>
  /\ vpc' = "idle"
  /\ scores' = <<>>
  /\ label' = ""
  /\ UNCHANGED <<artifact, estatus, loaded, error, scored, vectorizer, trainVars, auxVars>>

InitEngine ==
  /\ vectorizer = create_vectorizer
  /\ artifact \in Artifacts
  /\ estatus = "new"
  /\ loaded = <<>>
  /\ error = "none"
  /\ scored = FALSE
  /\ scores = <<>>
  /\ label = ""
  /\ doc = <<>>
  /\ vpc = "idle"
  /\ ngrams = <<>>
  /\ indices = <<>>
  /\ values = <<>>
  /\ X = <<>>
  /\ epc = "idle"
  /\ clf = <<>>
  /\ model = <<>>
  /\ file = <<>>
  /\ model_type = "logistic"
  /\ AuxIdle

NextEngine == LoadModel \/ Classify \/ Return

SpecEngine == InitEngine /\ [][NextEngine]_vars

(***************************************************************************)
(* The round trip of an artifact: export_model dumps it, the engine parses  *)
(* the document (the parser is the engine's, modelled from section 4.5),    *)
(* loads it and classifies with it.                                         *)
(***************************************************************************)
RECURSIVE ParseDigits(_, _)
\* the value of the leading decimal digits of s, after acc
ParseDigits(s, acc) ==
  IF s = <<>> \/ Head(s) \notin 48..57 THEN acc
  ELSE ParseDigits(Tail(s), (10 * acc) + (Head(s) - 48))

\* the value of a number literal whose fraction, if any, is zero
ParseNumber(s) == IF Head(s) = 45 THEN -ParseDigits(Tail(s), 0) ELSE ParseDigits(s, 0)

\* a JSON array of number literals as a weight row, columns 0..n-1
ParseRow(a) == [i \in 0..(Len(a) - 1) |-> ParseNumber(a[i + 1])]

\* the artifact the engine reads from the document
json_load(f) ==
  [type    |-> f.type,
   classes |-> f.classes,
   weights |-> [k \in 1..Len(f.weights) |-> ParseRow(f.weights[k])],
   bias    |-> [k \in 1..Len(f.bias) |-> ParseNumber(f.bias[k])],
   vectorizer |-> [nFeatures  |-> ParseNumber(f.vectorizer.nFeatures),
                   ngramRange |-> [k \in 1..Len(f.vectorizer.ngramRange) |->
                                     ParseNumber(f.vectorizer.ngramRange[k])],
                   analyzer   |-> f.vectorizer.analyzer]]

\* the engine reads the document that was written
ReadArtifact ==
  /\ epc = "done"
  /\ estatus = "idle"
  /\ artifact' = json_load(file)
  /\ estatus' = "new"
  /\ UNCHANGED <<loaded, error, scored, scores, label, vectorizer, vecVars, trainVars, auxVars>>

\* the coefficients and intercepts of the classifiers that are exported
RoundTripValues == {-12, 0, 24, 105}

\* the fitted classifiers whose artifacts make the round trip: two classes
\* with coefficients at the column of " a " and at the last column, three
\* classes with coefficients at the column of " a "
RoundTripClassifiers ==
  LET n    == VECTORIZER_CONFIG.n_features
      cols == EngineCols \cup {n - 1}
  IN  {[classes_ |-> c, coef_ |-> <<Row(n, nz)>>, intercept_ |-> <<b>>] :
         c \in {l \in ClassLists : Len(l) = 2},
         nz \in [cols -> RoundTripValues], b \in RoundTripValues}
      \cup
      {[classes_ |-> c, coef_ |-> [k \in 1..3 |-> Row(n, [i \in EngineCols |-> w[k]])],
        intercept_ |-> <<0, b, 0>>] :
         c \in {l \in ClassLists : Len(l) = 3},
         w \in [1..3 -> {-12, 105}], b \in {0, 105}}

InitRoundTrip ==
  /\ vectorizer = create_vectorizer
  /\ epc = "export"
  /\ clf \in RoundTripClassifiers
  /\ model = <<>>
  /\ file = <<>>
  /\ model_type = "logistic"
  /\ doc = <<>>
  /\ vpc = "idle"
  /\ ngrams = <<>>
  /\ indices = <<>>
  /\ values = <<>>
  /\ X = <<>>
  /\ EngineIdle
  /\ AuxIdle

NextRoundTrip == ExportModel \/ ReadArtifact \/ LoadModel \/ Classify \/ Return

SpecRoundTrip == InitRoundTrip /\ [][NextRoundTrip]_vars

(***************************************************************************)
(* verify_hash.py: for each test case, mmh3.hash(text, 0, signed=False) is  *)
(* printed as the value an implementation of the hash must reproduce.  The  *)
(* implementation checked against it is the hash of section 4.1, computed   *)
(* step by step: 4-byte little-endian chunks, the tail, the avalanche.      *)
(***************************************************************************)
\* "SELECT * FROM users WHERE id=1"
SelectText ==
  <<83, 69, 76, 69, 67, 84, 32, 42, 32, 70, 82, 79, 77, 32, 117, 115, 101, 114,
    115, 32, 87, 72, 69, 82, 69, 32, 105, 100, 61, 49>>

\* test_cases: "", "hello", "test", "sql", " sq", "ql ", "SELECT", "你好" and
\* the request line ("sql" is listed twice)
test_cases ==
  { <<>>, <<104, 101, 108, 108, 111>>, <<116, 101, 115, 116>>, <<115, 113, 108>>,
    <<32, 115, 113>>, <<113, 108, 32>>, <<83, 69, 76, 69, 67, 84>>,
    <<20320, 22909>>, SelectText }

\* MurmurHash3 x86 32-bit, seed 0, of the UTF-8 bytes of the test cases: the
\* values mmh3 gives (613153351 for "hello", 3127628307 for "test", ...)
ReferenceValue(t) ==
  CASE t = <<>> -> <<0, 0>>
    [] t = <<104, 101, 108, 108, 111>> -> <<9355, 64071>>
    [] t = <<116, 101, 115, 116>> -> <<47723, 53779>>
    [] t = <<115, 113, 108>> -> <<38365, 32588>>
    [] t = <<32, 115, 113>> -> <<57904, 4339>>
    [] t = <<113, 108, 32>> -> <<18100, 56980>>
    [] t = <<83, 69, 76, 69, 67, 84>> -> <<44389, 5132>>
    [] t = <<20320, 22909>> -> <<5147, 43556>>
    [] t = SelectText -> <<34201, 29609>>

\* mmh3.hash(text, 0, signed=False)
mmh3_hash(t) ==
  IF t \in test_cases THEN ReferenceValue(t) ELSE murmurhash3_32(Utf8(t), Seed)

MaxHashLen == 4

\* "a", space, "é" (two bytes), "你" (three bytes)
HashAlphabet == {97, 32, 233, 20320}

HashInputs == test_cases \cup SeqsUpTo(HashAlphabet, MaxHashLen)

\* hash_value = mmh3.hash(text, 0, signed=False); the implementation under
\* test receives encoder.encode(text) and the seed
Encode ==
  /\ hpc = "start"
  /\ hash_value' = mmh3_hash(htext)
  /\ data' = Utf8(htext)
  /\ h1' = Seed
  /\ pos' = 0
  /\ interm' = {}
  /\ hpc' = "body"
  /\ UNCHANGED htext

\* one 4-byte little-endian chunk: k *= c1; k = rotl(k, 15); k *= c2;
\* h ^= k; h = rotl(h, 13); h = h * 5 + 0xe6546b64
Chunk ==
  /\ hpc = "body"
  /\ pos + 4 <= Len(data)
  /\ LET k  == <<(data[pos + 4] * 256) + data[pos + 3],
                 (data[pos + 2] * 256) + data[pos + 1]>>
         k1 == Mul32(k, c1)
         k2 == Rotl32(k1, 15)
         k3 == Mul32(k2, c2)
         hx == Xor32(h1, k3)
         hr == Rotl32(hx, 13)
         hm == Mul32(hr, <<0, 5>>)
         ha == Add32(hm, n5)
     IN  /\ h1' = ha
         /\ interm' = {k, k1, k2, k3, hx, hr, hm, ha}
  /\ pos' = pos + 4
  /\ UNCHANGED <<htext, data, hpc, hash_value>>

\* the 1 to 3 bytes left: the reduced step, without the chunk mix of h
TailBytes ==
  /\ hpc = "body"
  /\ pos + 4 > Len(data)
  /\ LET r  == Len(data) - pos
         k  == <<IF r >= 3 THEN data[pos + 3] ELSE 0,
                 (IF r >= 2 THEN data[pos + 2] * 256 ELSE 0)
                   + (IF r >= 1 THEN data[pos + 1] ELSE 0)>>
         k1 == Mul32(k, c1)
         k2 == Rotl32(k1, 15)
         k3 == Mul32(k2, c2)
         hx == Xor32(h1, k3)
     IN  IF r = 0
         THEN /\ h1' = h1
              /\ interm' = {}
         ELSE /\ h1' = hx
              /\ interm' = {k, k1, k2, k3, hx}
  /\ pos' = Len(data)
  /\ hpc' = "fmix"
  /\ UNCHANGED <<htext, data, hash_value>>

\* h ^= len; h ^= h >> 16; h *= 0x85ebca6b; h ^= h >> 13; h *= 0xc2b2ae35;
\* h ^= h >> 16
Avalanche ==
  /\ hpc = "fmix"
  /\ LET n  == Len(data)
         a0 == Xor32(h1, <<n \div W16, n % W16>>)
         a1 == Xor32(a0, Shr32(a0, 16))
         a2 == Mul32(a1, f1)
         a3 == Xor32(a2, Shr32(a2, 13))
         a4 == Mul32(a3, f2)
         a5 == Xor32(a4, Shr32(a4, 16))
     IN  /\ h1' = a5
         /\ interm' = {a0, a1, a2, a3, a4, a5}
  /\ hpc' = "done"
  /\ UNCHANGED <<htext, data, pos, hash_value>>

InitHash ==
  /\ htext \in HashInputs
  /\ data = <<>>
  /\ hpc = "start"
  /\ h1 = <<0, 0>>
  /\ pos = 0
  /\ interm = {}
  /\ hash_value = <<0, 0>>
  /\ PipelineIdle
  /\ ReloadIdle
  /\ PrepIdle
  /\ GenIdle
  /\ DlIdle

HashStep == Encode \/ Chunk \/ TailBytes \/ Avalanche

NextHash == HashStep /\ UNCHANGED <<pipelineVars, reloadVars, prepVars, genVars, dlVars>>

SpecHash == InitHash /\ [][NextHash]_vars

(***************************************************************************)
(* Concurrent inference calls and a model reload (section 5).  The engine   *)
(* holds its models by reference; a reload builds the new model in an       *)
(* object of its own and publishes it by swapping the reference.            *)
(***************************************************************************)
\* the inference calls in flight at once
Calls == {1, 2}

MaxReloads == 1

\* the feature vectors of "" and of "a a", as the vectorizer builds them
XOfEmpty == SumDuplicates(<<>>, <<>>, VECTORIZER_CONFIG.n_features)

XOfAA ==
  LET g == Analyze(VECTORIZER_CONFIG, <<97, 32, 97>>)
  IN  SumDuplicates(TokenColumns(VECTORIZER_CONFIG, g), TokenValues(VECTORIZER_CONFIG, g),
                    VECTORIZER_CONFIG.n_features)

ReloadDocs == {<<>>, <<97, 32, 97>>}

FeatureVector(d) == IF d = <<>> THEN XOfEmpty ELSE XOfAA

\* a model with weights w1, w2 at the column of " a " and biases b1, b2
TwoClassModel(w1, w2, b1, b2) ==
  MakeModel(<<"safe", "attack">>,
            <<Row(EngineConfig.nFeatures, [i \in EngineCols |-> w1]),
              Row(EngineConfig.nFeatures, [i \in EngineCols |-> w2])>>,
            <<b1, b2>>, EngineConfig)

\* the model in service and the model a reload brings
OldModel == TwoClassModel(-1, 1, 0, 0)

NewModel == TwoClassModel(1, -1, -3, 3)

\* what a reload may be given: a valid model, a model with one bias for two
\* classes, a model of another vectorizer configuration
ReloadArtifacts ==
  { NewModel,
    [NewModel EXCEPT !.bias = <<3>>],
    [NewModel EXCEPT !.vectorizer.nFeatures = 2048] }

\* mutant: the reload fills the object that is in service
ReloadTargetInPlace(cur, n) == cur

\* the object a reload fills: a new one, never the one in service
ReloadTarget(cur, n) == n

IdleCall == [pc |-> "idle", ref |-> 0, seen |-> <<>>, doc |-> <<>>, fv |-> <<>>,
             scores |-> <<>>, label |-> ""]

\* a reload starts: the artifact is validated; a rejected artifact changes
\* nothing, an accepted one will be copied into its object
StartReload ==
  /\ rpc = "idle"
  /\ reloads < MaxReloads
  /\ reloads' = reloads + 1
  /\ \E a \in ReloadArtifacts :
       IF Deserialize(a) = "ok"
       THEN /\ incoming' = a
            /\ staged' = ReloadTarget(current, reloads + 1)
            /\ rpc' = "classes"
       ELSE /\ incoming' = <<>>
            /\ staged' = staged
            /\ rpc' = "idle"
  /\ UNCHANGED <<heap, current, calls>>

CopyClasses ==
  /\ rpc = "classes"
  /\ heap' = [heap EXCEPT ![staged].type = incoming.type,
                          ![staged].classes = incoming.classes,
                          ![staged].vectorizer = incoming.vectorizer]
  /\ rpc' = "weights"
  /\ UNCHANGED <<current, staged, incoming, reloads, calls>>

CopyWeights ==
  /\ rpc = "weights"
  /\ heap' = [heap EXCEPT ![staged].weights = incoming.weights]
  /\ rpc' = "bias"
  /\ UNCHANGED <<current, staged, incoming, reloads, calls>>

CopyBias ==
  /\ rpc = "bias"
  /\ heap' = [heap EXCEPT ![staged].bias = incoming.bias]
  /\ rpc' = "swap"
  /\ UNCHANGED <<current, staged, incoming, reloads, calls>>

\* the new model is published: one atomic store of the reference
Swap ==
  /\ rpc = "swap"
  /\ current' = staged
  /\ incoming' = <<>>
  /\ rpc' = "idle"
  /\ UNCHANGED <<heap, staged, reloads, calls>>

\* a call starts: it takes the reference in service and builds its own
\* feature vector
Begin(c) ==
  /\ calls[c].pc = "idle"
  /\ \E d \in ReloadDocs :
       calls' = [calls EXCEPT ![c] = [pc |-> "score", ref |-> current, seen |-> heap[current],
                                     doc |-> d, fv |-> FeatureVector(d),
                                     scores |-> <<>>, label |-> ""]]
  /\ UNCHANGED <<heap, current, rpc, staged, incoming, reloads>>

\* the score of the next class, read through the call's reference
ScoreClass(c) ==
  /\ calls[c].pc = "score"
  /\ LET m == heap[calls[c].ref]
         k == Len(calls[c].scores) + 1
         x == calls[c].fv
     IN  /\ k <= Len(m.classes)
         /\ calls' = [calls EXCEPT ![c].scores =
                        Append(@, DotOver(m.weights[k], x, Support(x)) + m.bias[k])]
  /\ UNCHANGED <<heap, current, rpc, staged, incoming, reloads>>

\* the argmax over the scores, and the label read through the reference
Decide(c) ==
  /\ calls[c].pc = "score"
  /\ LET m == heap[calls[c].ref]
     IN  /\ Len(calls[c].scores) = Len(m.classes)
         /\ calls' = [calls EXCEPT ![c].label = m.classes[ArgMax(calls[c].scores)],
                                   ![c].pc = "done"]
  /\ UNCHANGED <<heap, current, rpc, staged, incoming, reloads>>

\* the call returns
ReturnCall(c) ==
  /\ calls[c].pc = "done"
  /\ calls' = [calls EXCEPT ![c] = IdleCall]
  /\ UNCHANGED <<heap, current, rpc, staged, incoming, reloads>>

\* a step of the reload
ReloadStep == StartReload \/ CopyClasses \/ CopyWeights \/ CopyBias \/ Swap

\* a step of an inference call
CallStep == \E c \in Calls : Begin(c) \/ ScoreClass(c) \/ Decide(c) \/ ReturnCall(c)

\* an object that has not been filled
EmptyObject == [type |-> "", classes |-> <<>>, weights |-> <<>>, bias |-> <<>>,
                vectorizer |-> <<>>]

InitReload ==
  /\ heap = [r \in 0..MaxReloads |-> IF r = 0 THEN OldModel ELSE EmptyObject]
  /\ current = 0
  /\ rpc = "idle"
  /\ staged = 0
  /\ incoming = <<>>
  /\ reloads = 0
  /\ calls = [c \in Calls |-> IdleCall]
  /\ PipelineIdle
  /\ HashIdle
  /\ PrepIdle
  /\ GenIdle
  /\ DlIdle

NextReload == (ReloadStep \/ CallStep) /\ UNCHANGED <<pipelineVars, hashVars, prepVars, genVars, dlVars>>

SpecReload == InitReload /\ [][NextReload]_vars

(***************************************************************************)
(* prepare_dataset.py.  A text is the sequence of its pieces: a line of a   *)
(* samples file is a sequence of characters, a request template brings its  *)
(* text before and after the payload as one piece each.                     *)
(***************************************************************************)
\* REQUEST_TEMPLATES: the text before and after {payload}
REQUEST_TEMPLATES ==
  << [pre |-> "GET /api/users?id=", post |-> ""],
     [pre |-> "GET /api/search?q=", post |-> ""],
     [pre |-> "GET /api/products?filter=", post |-> ""],
     [pre |-> "POST /api/login username=", post |-> "&password=test"],
     [pre |-> "POST /api/data query=", post |-> ""],
     [pre |-> "GET /page?file=", post |-> ""],
     [pre |-> "GET /api/fetch?url=", post |-> ""],
     [pre |-> "GET /api/items?sort=", post |-> ""],
     [pre |-> "POST /api/comment body=", post |-> ""],
     [pre |-> "GET /download?path=", post |-> ""] >>

\* the characters str.strip() removes
IsBlank(ch) == ch \in {" ", "\t"}

RECURSIVE LStrip(_)
LStrip(l) == IF l # <<>> /\ IsBlank(Head(l)) THEN LStrip(Tail(l)) ELSE l

RECURSIVE RStrip(_)
RStrip(l) ==
  IF l # <<>> /\ IsBlank(l[Len(l)]) THEN RStrip(SubSeq(l, 1, Len(l) - 1)) ELSE l

\* line.strip()
Strip(l) == RStrip(LStrip(l))

RECURSIVE load_samples_unstripped(_)
\* mutant: the lines kept as they are read
load_samples_unstripped(lines) ==
  IF lines = <<>> THEN <<>>
  ELSE LET line == Head(lines)
       IN  (IF line # <<>> /\ line[1] # "#" THEN <<line>> ELSE <<>>)
             \o load_samples_unstripped(Tail(lines))

RECURSIVE load_samples(_)
\* load_samples: the stripped lines that are not empty and do not start
\* with "#", in the order of the file
load_samples(lines) ==
  IF lines = <<>> THEN <<>>
  ELSE LET line == Strip(Head(lines))
       IN  (IF line # <<>> /\ line[1] # "#" THEN <<line>> ELSE <<>>)
             \o load_samples(Tail(lines))

\* template.format(payload=payload)
Format(template, payload) ==
  <<template.pre>> \o payload \o (IF template.post = "" THEN <<>> ELSE <<template.post>>)

\* the records of one file, the k-th injected sample using template choice[k]
Records(stem, samples, inject, choice) ==
  [k \in 1..Len(samples) |->
     [text  |-> IF inject THEN Format(REQUEST_TEMPLATES[choice[k]], samples[k])
                ELSE samples[k],
      label |-> stem]]

\* the loop body of main for one samples file: its records are appended
ProcessFile ==
  /\ ppc = "files"
  /\ \E stem \in pending :
       LET samples == load_samples(samples_dir[stem])
           inject  == ~(stem = "safe" \/ raw)
       IN  /\ \E choice \in [1..Len(samples) ->
                                IF inject THEN 1..Len(REQUEST_TEMPLATES) ELSE {1}] :
                all_samples' = all_samples \o Records(stem, samples, inject, choice)
           /\ origin' = origin \o [k \in 1..Len(samples) |->
                                     [label |-> stem, sample |-> samples[k]]]
           /\ pending' = pending \ {stem}
           /\ ppc' = IF pending' = {} THEN "shuffle" ELSE "files"
  /\ UNCHANGED <<samples_dir, raw, dataset>>

\* the orders random.shuffle may produce: every permutation of 1..n
ShuffleOrders(n) ==
  {order \in [1..n -> 1..n] : \A i, j \in 1..n : order[i] = order[j] => i = j}

\* random.shuffle(all_samples)
Shuffle ==
  /\ ppc = "shuffle"
  /\ \E order \in ShuffleOrders(Len(all_samples)) :
       /\ all_samples' = [i \in 1..Len(all_samples) |-> all_samples[order[i]]]
       /\ origin' = [i \in 1..Len(origin) |-> origin[order[i]]]
  /\ ppc' = "write"
  /\ UNCHANGED <<samples_dir, raw, pending, dataset>>

RECURSIVE Escape(_)
\* the body of a JSON string: a quote and a backslash get a backslash
Escape(t) ==
  IF t = <<>> THEN <<>>
  ELSE (IF Head(t) \in {"\"", "\\"} THEN <<"\\", Head(t)>> ELSE <<Head(t)>>)
         \o Escape(Tail(t))

\* json.dumps(sample, ensure_ascii=False): one line of dataset.jsonl
json_dumps(r) == [text |-> Escape(r.text), label |-> r.label]

RECURSIVE Unescape(_)
\* the string a JSON string body stands for
Unescape(t) ==
  IF t = <<>> THEN <<>>
  ELSE IF Head(t) = "\\" /\ Len(t) >= 2 THEN <<t[2]>> \o Unescape(Tail(Tail(t)))
  ELSE <<Head(t)>> \o Unescape(Tail(t))

\* json.loads(line) of load_dataset: the record a line of the dataset holds
json_loads(l) == [text |-> Unescape(l.text), label |-> l.label]

\* the dataset is written, one line per record
WriteDataset ==
  /\ ppc = "write"
  /\ dataset' = [i \in 1..Len(all_samples) |-> json_dumps(all_samples[i])]
  /\ ppc' = "done"
  /\ UNCHANGED <<samples_dir, raw, pending, all_samples, origin>>

MaxLines == 2

\* lines of a samples file: blank, comment, indented comment, a sample
\* between blanks, a sample with a blank, a quote and a backslash inside
SampleLines ==
  { <<" ">>, <<"#", "x">>, <<" ", "#">>, <<" ", "x", "\t">>,
    <<"y", " ", "\"", "\\", "#">> }

\* the samples directory: safe.txt and sqli.txt
SamplesDirs ==
  { [l \in {"safe", "sqli"} |-> IF l = "safe" THEN f ELSE g] :
      f \in { <<>>, << <<" ", "x", "\t">> >>,
               << <<"#", "x">>, <<"y", " ", "\"", "\\", "#">> >> },
      g \in SeqsUpTo(SampleLines, MaxLines) }

InitPrepare ==
  /\ samples_dir \in SamplesDirs
  /\ raw \in BOOLEAN
  /\ ppc = "files"
  /\ pending = DOMAIN samples_dir
  /\ all_samples = <<>>
  /\ origin = <<>>
  /\ dataset = <<>>
  /\ PipelineIdle
  /\ HashIdle
  /\ ReloadIdle
  /\ GenIdle
  /\ DlIdle

PrepareStep == ProcessFile \/ Shuffle \/ WriteDataset

NextPrepare == PrepareStep /\ UNCHANGED <<pipelineVars, hashVars, reloadVars, genVars, dlVars>>

SpecPrepare == InitPrepare /\ [][NextPrepare]_vars

(***************************************************************************)
(* generate_safe_requests.py.  A request is the sequence of its pieces.     *)
(***************************************************************************)
METHODS == <<"GET", "POST", "PUT", "PATCH", "DELETE">>

\* the draws of generate_request that are followed: two of the methods, one
\* of the paths, one of the numbers 1..9999, no query parameter, one of the
\* body templates
GenMethods == {METHODS[1], METHODS[2]}

GenPaths == {"/health"}

GenIds == {"7"}

GenQueries == {""}

GenBodies == {"token=abc123xyz&refresh=true"}

\* f"{method} {path}{query}", then " " and the body if there is one
Render(method, path, query, body) ==
  <<method, " ">> \o path \o (IF query = "" THEN <<>> ELSE <<query>>)
    \o (IF body = "" THEN <<>> ELSE <<" ", body>>)

\* generate_request: every request it may return under the draws followed
generate_request ==
  { Render(method, path, query, body) :
      method \in GenMethods,
      path \in {<<q>> : q \in GenPaths} \cup {<<q, "/", i>> : q \in GenPaths, i \in GenIds},
      query \in GenQueries,
      body \in {""} \cup GenBodies }
  \ { Render(method, path, query, body) :
        method \in GenMethods \ {"POST", "PUT", "PATCH"},
        path \in {<<q>> : q \in GenPaths} \cup {<<q, "/", i>> : q \in GenPaths, i \in GenIds},
        query \in GenQueries,
        body \in GenBodies }

\* mutant: the loop entered once more when the set is full
LoopGuardInclusive(n, c) == n <= c

\* while len(requests) < args.count
LoopGuard(n, c) == n < c

\* requests.add(generate_request()), the request drawn being r
Generate(r) ==
  /\ gpc = "loop"
  /\ LoopGuard(Cardinality(requests), count)
  /\ requests' = requests \cup {r}
  /\ UNCHANGED <<count, gpc, output, pipelineVars, hashVars, reloadVars, prepVars, dlVars>>

RECURSIVE SetToSeq(_)
\* the elements of a set in the order an iteration meets them
SetToSeq(S) ==
  IF S = {} THEN <<>>
  ELSE LET r == CHOOSE q \in S : TRUE IN <<r>> \o SetToSeq(S \ {r})

\* the loop is left and the output file is written: the total, then one
\* line per request of the set
WriteRequests ==
  /\ gpc = "loop"
  /\ ~LoopGuard(Cardinality(requests), count)
  /\ output' = [total |-> Cardinality(requests), lines |-> SetToSeq(requests)]
  /\ gpc' = "done"
  /\ UNCHANGED <<count, requests, pipelineVars, hashVars, reloadVars, prepVars, dlVars>>

MaxCount == 7

\* --count is any int
InitGenerate ==
  /\ count \in (-1)..MaxCount
  /\ requests = {}
  /\ gpc = "loop"
  /\ output = <<>>
  /\ PipelineIdle
  /\ HashIdle
  /\ ReloadIdle
  /\ PrepIdle
  /\ DlIdle

NextGenerate == (\E r \in generate_request : Generate(r)) \/ WriteRequests

SpecGenerate == InitGenerate /\ [][NextGenerate]_vars

\* fair random choice: a request that can be drawn again and again is drawn;
\* the program goes on when it can
SpecGenerateFair ==
  /\ SpecGenerate
  /\ \A r \in generate_request : SF_vars(Generate(r))
  /\ WF_vars(WriteRequests)

(***************************************************************************)
(* download_datasets.py.  Each source is tried on its own: download, then   *)
(* extraction, then the payloads are added; an exception anywhere in the    *)
(* try block is caught and the source adds nothing.                         *)
(***************************************************************************)
\* the directory of a source under data/
RepoName(i) == IF i = 1 THEN "PayloadsAllTheThings" ELSE "SecLists"

\* mutant: the filter without the length
KeepsLineAnyLength(line) == line # <<>> /\ line[1] # "#"

\* if line and not line.startswith('#') and len(line) > 3
KeepsLine(line) == line # <<>> /\ line[1] # "#" /\ Len(line) > 3

RECURSIVE FilterLines(_)
\* the loop over the lines of a payload file
FilterLines(lines) ==
  IF lines = <<>> THEN <<>>
  ELSE (IF KeepsLine(Strip(Head(lines))) THEN <<Strip(Head(lines))>> ELSE <<>>)
         \o FilterLines(Tail(lines))

\* extract_payloads, extract_seclists: the lines kept of the payload file; a
\* read error inside the file is swallowed and the lines before it stay
extract(src) == FilterLines(SubSeq(src.lines, 1, src.read))

\* what may go wrong with a source: nothing; the clone fails without an
\* exception (git's exit status is not checked); the download raises (git
\* cannot be started); the extraction raises
Faults == {"none", "clone_failed", "download", "extract"}

\* the download raises: a subprocess is started unless SecLists is there
DownloadRaises(i) ==
  sources[i].fault = "download" /\ (i = 1 \/ RepoName(i) \notin repos)

\* the repository is there after the download
Cloned(i) ==
  /\ ~DownloadRaises(i)
  /\ RepoName(i) \in repos \/ sources[i].fault # "clone_failed"

\* the try block of the source ends in its except branch
Failed(i) == DownloadRaises(i) \/ sources[i].fault = "extract"

\* the try block of source i and its except branch
ProcessSource(i) ==
  /\ dpc = (IF i = 1 THEN "source1" ELSE "source2")
  /\ repos' = IF Cloned(i) THEN repos \cup {RepoName(i)} ELSE repos
  /\ all_suspicious' =
       IF Failed(i) THEN all_suspicious
       ELSE all_suspicious \o (IF Cloned(i) THEN extract(sources[i]) ELSE <<>>)
  /\ dpc' = (IF i = 1 THEN "source2" ELSE "write")
  /\ UNCHANGED <<sources, suspicious_txt, pipelineVars, hashVars, reloadVars,
                 prepVars, genVars>>

\* all_suspicious = list(set(all_suspicious)); suspicious.txt is written
WriteSuspicious ==
  /\ dpc = "write"
  /\ all_suspicious' = SetToSeq(Range(all_suspicious))
  /\ suspicious_txt' = [total |-> Len(all_suspicious'), lines |-> all_suspicious']
  /\ dpc' = "cleanup"
  /\ UNCHANGED <<sources, repos, pipelineVars, hashVars, reloadVars, prepVars, genVars>>

\* shutil.rmtree of each temporary repository that exists
Cleanup ==
  /\ dpc = "cleanup"
  /\ repos' = repos \ {RepoName(1), RepoName(2)}
  /\ dpc' = "done"
  /\ UNCHANGED <<sources, all_suspicious, suspicious_txt, pipelineVars, hashVars,
                 reloadVars, prepVars, genVars>>

MaxPayloadLines == 2

\* lines of a payload file: a payload, the same payload between blanks, a
\* comment, a line of three characters, another payload, a blank line
PayloadLines ==
  { <<"a", "b", "c", "d">>, <<" ", "a", "b", "c", "d", "\t">>, <<"#", "a", "b", "c">>,
    <<"a", "b", "c">>, <<"'", " ", "o", "r", " ", "1">>, <<" ">> }

\* the payload file of a source, how far it can be read, and the fault
SourcesOne ==
  UNION { { [lines |-> l, read |-> r, fault |-> f] : r \in 0..Len(l), f \in Faults } :
            l \in SeqsUpTo(PayloadLines, MaxPayloadLines) }

SourcesTwo ==
  { [lines |-> l, read |-> 2, fault |-> f] :
      l \in { << <<"a", "b", "c", "d">>, <<"<", "s", "v", "g", ">">> >>,
               << <<"#", " ", "x", "s", "s">>, <<"a", "b">> >> },
      f \in Faults }

InitDownload ==
  /\ sources \in {<<a, b>> : a \in SourcesOne, b \in SourcesTwo}
  /\ repos \in {{}, {RepoName(2)}}
  /\ dpc = "source1"
  /\ all_suspicious = <<>>
  /\ suspicious_txt = <<>>
  /\ PipelineIdle
  /\ HashIdle
  /\ ReloadIdle
  /\ PrepIdle
  /\ GenIdle

NextDownload == ProcessSource(1) \/ ProcessSource(2) \/ WriteSuspicious \/ Cleanup

SpecDownload == InitDownload /\ [][NextDownload]_vars

(***************************************************************************)
(* Properties of export_model                                               *)
(***************************************************************************)
\* C1: a two-class artifact has exactly two weight rows and two biases, and
\* row 1 is the element-wise negation of row 0, bias 1 the negation of bias 0
\* (rows and biases are numbered from 1 here).
BinaryExpansion ==
  (epc = "done" /\ Len(model.classes) = 2) =>
    /\ Len(model.weights) = 2
    /\ Len(model.bias) = 2
    /\ DOMAIN model.weights[2] = DOMAIN model.weights[1]
    /\ \A i \in DOMAIN model.weights[1] : model.weights[2][i] = -model.weights[1][i]
    /\ model.bias[2] = -model.bias[1]

\* C1 witness: an exported two-class model with a non-zero coefficient and intercept
BinaryExpansionWitness ==
  /\ epc = "done"
  /\ Len(model.classes) = 2
  /\ clf.intercept_[1] # 0
  /\ model.weights[2][4095] # 0

\* C2: classes, weights and bias of every artifact have the same length C >= 2,
\* every weight row has n_features columns, and row k holds the parameters of
\* classes[k]: the classifier's row k, or for two classes its single row for
\* the second class and the negation for the first.
ArtifactShape ==
  epc = "done" =>
    /\ Len(model.classes) >= 2
    /\ model.classes = clf.classes_
    /\ Len(model.weights) = Len(model.classes)
    /\ Len(model.bias) = Len(model.classes)
    /\ \A k \in 1..Len(model.weights) :
         DOMAIN model.weights[k] = 0..(model.vectorizer.nFeatures - 1)
    /\ IF Len(clf.coef_) = 1
       THEN /\ model.weights[2] = clf.coef_[1] /\ model.bias[2] = clf.intercept_[1]
            /\ model.weights[1] = Neg(clf.coef_[1]) /\ model.bias[1] = -clf.intercept_[1]
       ELSE \A k \in 1..Len(model.classes) :
              model.weights[k] = clf.coef_[k] /\ model.bias[k] = clf.intercept_[k]

\* C2 witness: an exported model of the multi-class branch
ArtifactShapeWitness ==
  /\ epc = "done"
  /\ Len(model.classes) = 3
  /\ model.weights[2][0] # 0

(***************************************************************************)
(* Properties of the vectorizer                                             *)
(***************************************************************************)
RECURSIVE SumOver(_, _)
\* the sum of f over the finite set S
SumOver(f, S) ==
  IF S = {} THEN 0
  ELSE LET i == CHOOSE j \in S : TRUE IN f[i] + SumOver(f, S \ {i})

\* the sum of all entries of a row (its zero entries add nothing)
SumEntries(row) == SumOver(row, {i \in DOMAIN row : row[i] # 0})

\* the number of tokens hashed to column i
CountAt(i) == Cardinality({j \in 1..Len(indices) : indices[j] = i})

\* the words of the document as the analyzer sees them
DocWords == Split(NormalizeSpaces(LowerText(doc)))

Padded(w) == <<32>> \o w \o <<32>>

\* the n-grams emitted for word k with loop variable n
GramsOf(k, n) == {j \in 1..Len(ngrams) : ngrams[j].word = k /\ ngrams[j].n = n}

\* C3: the entries of the feature vector sum to the number of tokens the
\* tokenizer emitted: every token adds exactly 1 to exactly one column, and
\* column i holds the number of tokens hashed to it (a count, not a flag).
CountConservation ==
  /\ \A j \in 1..Len(values) : values[j] = 1
  /\ Len(values) = Len(indices)
  /\ vpc = "done" =>
       /\ Len(indices) = Len(ngrams)
       /\ SumEntries(X) = Len(ngrams)
       /\ \A i \in Range(indices) : X[i] = CountAt(i)

\* C3 witness: a finished vector in which several tokens share a column
CountConservationWitness ==
  /\ vpc = "done"
  /\ Len(ngrams) >= 4
  /\ \E i \in DOMAIN X : X[i] >= 2

\* C4: every column written lies in [0, 4096), the feature vector has
\* exactly n_features = 4096 entries, and every entry is a natural number.
VectorDomain ==
  /\ vectorizer.n_features = 4096
  /\ \A j \in 1..Len(indices) : indices[j] \in 0..4095
  /\ vpc = "done" =>
       /\ DOMAIN X = 0..(vectorizer.n_features - 1)
       /\ \A i \in DOMAIN X : X[i] \in Nat

\* C4 witness: a finished vector one of whose tokens has a negative signed hash
VectorDomainWitness ==
  /\ vpc = "done"
  /\ \E j \in 1..Len(ngrams) :
       /\ TokenHash(ngrams[j].tok) < 0
       /\ X[indices[j]] >= 1

\* C5: a word whose padded length is L contributes exactly max(0, L - n + 1)
\* tokens of length n for each n in 3..5, and nothing else.
TokenizerCardinality ==
  vpc # "analyze" =>
    /\ \A j \in 1..Len(ngrams) :
         /\ ngrams[j].word \in 1..Len(DocWords)
         /\ ngrams[j].n \in 3..5
         /\ Len(ngrams[j].tok) = ngrams[j].n
    /\ \A k \in 1..Len(DocWords) : \A n \in 3..5 :
         Cardinality(GramsOf(k, n)) = Max(0, Len(Padded(DocWords[k])) - n + 1)

\* C5 witness: a short word (nothing for n = 5) beside a longer one
TokenizerCardinalityWitness ==
  /\ vpc = "done"
  /\ \E k \in 1..Len(DocWords) :
       Len(Padded(DocWords[k])) = 3 /\ GramsOf(k, 4) = {} /\ GramsOf(k, 3) # {}
  /\ \E k \in 1..Len(DocWords) :
       Len(Padded(DocWords[k])) = 4 /\ Cardinality(GramsOf(k, 3)) = 2

\* C6: every token is a contiguous piece of one padded word, so whitespace
\* occurs in it only as its first or last character; a document of
\* whitespace only (or the empty document) yields no token.
TokensWithinWords ==
  vpc # "analyze" =>
    /\ \A j \in 1..Len(ngrams) :
         LET g == ngrams[j]
         IN  /\ g.word \in 1..Len(DocWords)
             /\ Len(g.tok) >= 1
             /\ g.offset + Len(g.tok) <= Len(Padded(DocWords[g.word]))
             /\ g.tok = SubSeq(Padded(DocWords[g.word]), g.offset + 1, g.offset + Len(g.tok))
             /\ \A c \in 2..(Len(g.tok) - 1) : ~IsSpace(g.tok[c])
    /\ \A k \in 1..Len(DocWords) :
         /\ Len(DocWords[k]) >= 1
         /\ \A c \in 1..Len(DocWords[k]) : ~IsSpace(DocWords[k][c])
    /\ (\A c \in 1..Len(doc) : IsSpace(doc[c])) => ngrams = <<>>

\* C6 witness: two words, with a token at the start and one at the end of a word
TokensWithinWordsWitness ==
  /\ vpc = "done"
  /\ Len(DocWords) = 2
  /\ \E j \in 1..Len(ngrams) : ngrams[j].word = 1 /\ IsSpace(ngrams[j].tok[Len(ngrams[j].tok)])
  /\ \E j \in 1..Len(ngrams) : ngrams[j].word = 2 /\ IsSpace(ngrams[j].tok[1])

(***************************************************************************)
(* Properties of the inference side                                         *)
(***************************************************************************)
\* dot(w, x) taken over the columns where the weight is non-zero
DotByWeights(w, x) ==
  SumOver([i \in DOMAIN w |-> w[i] * x[i]], {i \in DOMAIN w : w[i] # 0})

\* k is the lowest index among the maxima of sc
LowestMax(sc, k) ==
  /\ k \in DOMAIN sc
  /\ \A j \in DOMAIN sc : sc[j] <= sc[k]
  /\ \A j \in DOMAIN sc : j < k => sc[j] < sc[k]

\* C7: every call scores each class with dot(weights[c], x) + bias[c] and
\* returns the class of maximal score, the lowest index among equal maxima;
\* the result is determined by the loaded model and the feature vector.
ArgmaxDecision ==
  (estatus = "ready" /\ vpc = "done") =>
    /\ DOMAIN scores = 1..Len(loaded.classes)
    /\ \A c \in DOMAIN scores :
         scores[c] = DotByWeights(loaded.weights[c], X) + loaded.bias[c]
    /\ \E k \in DOMAIN scores : LowestMax(scores, k) /\ label = loaded.classes[k]

\* C7 witness: three classes, the last two tied at the maximum
ArgmaxDecisionWitness ==
  /\ vpc = "done"
  /\ Len(scores) = 3
  /\ scores[2] = scores[3]
  /\ scores[2] > scores[1]
  /\ label = loaded.classes[2]

\* C8: the empty text is classified without error: no token, a feature
\* vector of zeros, every score equal to the class's bias, and the label of
\* the largest bias (the lowest index among equal ones), whatever the weights.
EmptyTextDecision ==
  (estatus = "ready" /\ vpc = "done" /\ doc = <<>>) =>
    /\ error = "none"
    /\ ngrams = <<>>
    /\ DOMAIN X = 0..(EngineConfig.nFeatures - 1)
    /\ \A i \in DOMAIN X : X[i] = 0
    /\ \A c \in DOMAIN scores : scores[c] = loaded.bias[c]
    /\ \E k \in DOMAIN scores : LowestMax(loaded.bias, k) /\ label = loaded.classes[k]

\* C8 witness: the empty text, non-zero weights, the second bias the larger
EmptyTextDecisionWitness ==
  /\ vpc = "done"
  /\ doc = <<>>
  /\ \E i \in EngineCols : loaded.weights[1][i] > 0
  /\ loaded.bias[2] > loaded.bias[1]
  /\ label = loaded.classes[2]

\* C9: with the scenario model (weights -5 / +5 at column hash("nio") mod
\* 4096, biases 0) "union select" is classified "attack" and "hello world"
\* is classified "safe".
ScenarioB ==
  (vpc = "done" /\ loaded = ScenarioModel) =>
    /\ doc = UnionSelect => label = "attack"
    /\ doc = HelloWorld => label = "safe"

\* C10: an artifact whose vectorizer configuration differs from the engine's
\* is never scored, and once loading has been tried the engine has failed
\* with ConfigMismatchError and holds no model.
ConfigMismatchFailsLoad ==
  (ArtifactFields \subseteq DOMAIN artifact /\ artifact.vectorizer # EngineConfig) =>
    /\ ~scored
    /\ scores = <<>>
    /\ label = ""
    /\ loaded = <<>>
    /\ estatus # "new" => (estatus = "failed" /\ error = "ConfigMismatchError")

\* C10 witness: the artifact declaring nFeatures 2048 has been refused
ConfigMismatchFailsLoadWitness ==
  /\ estatus = "failed"
  /\ artifact.vectorizer.nFeatures = 2048
  /\ error = "ConfigMismatchError"

(***************************************************************************)
(* Rejection of malformed artifacts                                         *)
(***************************************************************************)
\* the number of columns of a weight row
RowLength(row) == Cardinality(DOMAIN row)

\* a field is missing, or classes, weights and bias differ in length, or a
\* weight row has not the engine's n_features columns
Malformed(a) ==
  \/ ~(ArtifactFields \subseteq DOMAIN a)
  \/ /\ ArtifactFields \subseteq DOMAIN a
     /\ \/ Len(a.weights) # Len(a.classes)
        \/ Len(a.bias) # Len(a.classes)
        \/ \E k \in 1..Len(a.weights) :
             RowLength(a.weights[k]) # EngineConfig.nFeatures

\* C11: a malformed artifact (a missing field, lengths of classes, weights
\* and bias that disagree, or a weight row whose length is not n_features) is
\* rejected as a whole: it never becomes the engine's model, no score and no
\* label is ever produced from it, and the load ends with an error.  What the
\* engine holds is always the whole artifact, unchanged (nothing is truncated
\* or padded), and never a malformed one.
MalformedRejected ==
  /\ Malformed(artifact) =>
       /\ loaded = <<>>
       /\ scored = FALSE
       /\ scores = <<>>
       /\ label = ""
       /\ estatus \in {"new", "failed"}
       /\ estatus = "failed" => error \in {"ModelLoadError", "ConfigMismatchError"}
       /\ (estatus = "failed" /\ ArtifactFields \subseteq DOMAIN artifact
             /\ artifact.vectorizer = EngineConfig) => error = "ModelLoadError"
  /\ loaded # <<>> => loaded = artifact /\ ~Malformed(loaded)

\* a load has rejected an artifact whose second weight row is one column short
MalformedRejectedWitness ==
  /\ estatus = "failed"
  /\ error = "ModelLoadError"
  /\ ArtifactFields \subseteq DOMAIN artifact
  /\ Len(artifact.weights) = Len(artifact.classes)
  /\ Len(artifact.bias) = Len(artifact.classes)
  /\ RowLength(artifact.weights[2]) = EngineConfig.nFeatures - 1
  /\ loaded = <<>>

(***************************************************************************)
(* The round trip of an artifact                                            *)
(***************************************************************************)
\* the label the model the exporter built gives the current feature vector
DecisionOf(m, x) == m.classes[ArgMax(Scores(m, x))]

\* C12: the artifact read back from the written document has the classes (in
\* their order), the weights, the bias and the vectorizer configuration of
\* the model that was exported, it is accepted by the loader, and every text
\* classified with it gets the label the exported model gives it.
RoundTrip ==
  /\ artifact # <<>> =>
       /\ artifact.type = model.type
       /\ artifact.classes = model.classes
       /\ artifact.weights = model.weights
       /\ artifact.bias = model.bias
       /\ artifact.vectorizer = model.vectorizer
  /\ estatus # "failed"
  /\ vpc = "done" => label = DecisionOf(model, X)

\* a text was classified "safe" by a loaded two-class model that made the
\* round trip with a negative coefficient and a three-digit intercept
RoundTripWitness ==
  /\ vpc = "done"
  /\ doc = <<97, 32, 97>>
  /\ file # <<>>
  /\ \E i \in EngineCols : clf.coef_[1][i] = -12 /\ file.weights[2][i + 1] = <<45, 49, 50, 46, 48>>
  /\ Len(clf.classes_) = 2
  /\ clf.intercept_[1] = 105
  /\ loaded = artifact
  /\ label = clf.classes_[2]

(***************************************************************************)
(* The hash                                                                 *)
(***************************************************************************)
\* a word whose value hi * 2^16 + lo lies in [0, 2^32)
IsWord32(w) == w[1] \in 0..(W16 - 1) /\ w[2] \in 0..(W16 - 1)

\* the guards of Encode, Chunk, TailBytes and Avalanche: one of them is open
HashStepEnabled ==
  \/ hpc = "start"
  \/ hpc = "body" /\ pos + 4 <= Len(data) /\ \A i \in 1..4 : data[pos + i] \in 0..255
  \/ hpc = "body" /\ pos + 4 > Len(data) /\ \A i \in (pos + 1)..Len(data) : data[i] \in 0..255
  \/ hpc = "fmix"

\* C13: the hash is defined for every byte sequence (a step is possible until
\* the result is there, also for the empty input and for 1 to 3 tail bytes),
\* the running hash and every intermediate word stay in [0, 2^32), the bytes
\* are consumed in whole chunks with fewer than four left to the tail, and
\* the result is the value verify_hash prints for the same UTF-8 bytes: the
\* reference MurmurHash3 value, unsigned.
HashConformance ==
  /\ IsWord32(h1)
  /\ \A w \in interm : IsWord32(w)
  /\ hpc \in {"start", "body", "fmix", "done"}
  /\ hpc # "done" => HashStepEnabled
  /\ hpc = "body" => (pos % 4) = 0 /\ pos <= Len(data)
  /\ hpc \in {"fmix", "done"} => pos = Len(data)
  /\ hpc = "done" =>
       /\ h1 = hash_value
       /\ htext \in test_cases => h1 = ReferenceValue(htext)
       /\ Len(data) <= 16 => h1 = murmurhash3_32(data, Seed)

\* the hash of the 30-byte request line (seven chunks and a tail of two
\* bytes) has been computed: 2241426345, a value of 2^31 or more
HashConformanceWitness ==
  /\ hpc = "done"
  /\ htext = SelectText
  /\ Len(data) = 30
  /\ h1 = <<34201, 29609>>
  /\ h1 = hash_value

(***************************************************************************)
(* Inference calls during a reload                                          *)
(***************************************************************************)
\* what holds of a call in flight: the object behind its reference is still
\* the model it started with, that model passed validation and is the old or
\* the new model whole, every score and the label are that model's, and the
\* feature vector is the one the call built from its own text
CallIsolated(c) ==
  calls[c].pc # "idle" =>
    /\ heap[calls[c].ref] = calls[c].seen
    /\ Deserialize(calls[c].seen) = "ok"
    /\ calls[c].seen \in {OldModel, NewModel}
    /\ calls[c].fv = FeatureVector(calls[c].doc)
    /\ \A k \in 1..Len(calls[c].scores) :
         calls[c].scores[k] = Scores(calls[c].seen, calls[c].fv)[k]
    /\ calls[c].pc = "done" => calls[c].label = DecisionOf(calls[c].seen, calls[c].fv)

\* C14: under every interleaving of the inference calls with a reload, each
\* call in flight reads one model from start to end, a model that passed
\* validation and is wholly the old or wholly the new one; the model in
\* service is always a validated one; and a step of an inference call leaves
\* the models, the reference in service and the other calls' data unchanged.
ReloadIsolation ==
  /\ [](/\ \A c \in Calls : CallIsolated(c)
        /\ Deserialize(heap[current]) = "ok")
  /\ [][\A c \in Calls :
          calls'[c] # calls[c] =>
            /\ heap' = heap
            /\ current' = current
            /\ \A d \in Calls \ {c} : calls'[d] = calls[d]]_vars

\* a call that started before the swap has finished on the old model after
\* it, with the old model's label where the new model gives the other one,
\* while another call is scoring with the new model
ReloadIsolationWitness ==
  /\ calls[1].pc = "done"
  /\ calls[1].ref # current
  /\ calls[1].seen = OldModel
  /\ heap[current] = NewModel
  /\ calls[1].label = "safe"
  /\ DecisionOf(heap[current], calls[1].fv) = "attack"
  /\ calls[2].pc = "score"
  /\ calls[2].ref = current
  /\ Len(calls[2].scores) = 1

(***************************************************************************)
(* The configuration an exported artifact declares                          *)
(***************************************************************************)
\* C15: whatever classifier was fitted and whichever model type was chosen,
\* the artifact export_model writes with the vectorizer of create_vectorizer
\* declares nFeatures 4096, ngramRange [3, 5], analyzer "char_wb" and type
\* "logistic_regression" (in the dict and in the document written), and an
\* engine compiled for that configuration does not answer the document with
\* ConfigMismatchError.
ExportedConfig ==
  epc = "done" =>
    /\ model.type = "logistic_regression"
    /\ model.vectorizer = [nFeatures |-> 4096, ngramRange |-> <<3, 5>>, analyzer |-> "char_wb"]
    /\ file.type = "logistic_regression"
    /\ file.vectorizer = [nFeatures  |-> <<52, 48, 57, 54>>,
                          ngramRange |-> <<(<<51>>), (<<53>>)>>,
                          analyzer   |-> "char_wb"]
    /\ Deserialize(json_load(file)) # "ConfigMismatchError"

\* an artifact of a three-class classifier fitted with --model sgd has been
\* written
ExportedConfigWitness ==
  /\ epc = "done"
  /\ model_type = "sgd"
  /\ Len(clf.classes_) = 3
  /\ file # <<>>
  /\ Deserialize(json_load(file)) = "ok"

(***************************************************************************)
(* The exported two-row model against the classifier's own decision         *)
(***************************************************************************)
\* C16: for a two-class classifier with row w and intercept b, the label the
\* engine gives a feature vector x with the exported two-row model (argmax,
\* the lowest index winning a tie) is the label of the classifier's sign
\* rule: the second class when w.x + b > 0, the first when w.x + b <= 0, the
\* tie w.x + b = 0 included.
SignRule ==
  (vpc = "done" /\ Len(clf.classes_) = 2) =>
    /\ label = predict(clf, X)
    /\ decision_function(clf, X) > 0 => label = clf.classes_[2]
    /\ decision_function(clf, X) <= 0 => label = clf.classes_[1]
    /\ scores[2] = decision_function(clf, X)
    /\ scores[1] = -scores[2]

\* the tie with a non-zero product: "a a" puts 2 in the column of " a ",
\* w is -12 there and b is 24, both scores are 0 and the first class wins
SignRuleWitness ==
  /\ vpc = "done"
  /\ Len(clf.classes_) = 2
  /\ doc = <<97, 32, 97>>
  /\ \E i \in EngineCols : clf.coef_[1][i] = -12 /\ X[i] = 2
  /\ clf.intercept_[1] = 24
  /\ scores = <<0, 0>>
  /\ label = clf.classes_[1]

(***************************************************************************)
(* The records prepare_dataset writes                                       *)
(***************************************************************************)
\* a line that holds a sample: stripped, it is not empty and no comment
IsSampleLine(l) == Strip(l) # <<>> /\ Head(Strip(l)) # "#"

\* the number of lines of the file that hold the sample smp
SampleCount(stem, smp) ==
  Cardinality({k \in 1..Len(samples_dir[stem]) :
                 IsSampleLine(samples_dir[stem][k]) /\ Strip(samples_dir[stem][k]) = smp})

\* the number of sample lines of the file
FileSamples(stem) ==
  Cardinality({k \in 1..Len(samples_dir[stem]) : IsSampleLine(samples_dir[stem][k])})

\* the number of records made from the sample smp of the file
OriginCount(stem, smp) ==
  Cardinality({i \in 1..Len(origin) : origin[i] = [label |-> stem, sample |-> smp]})

\* the number of times r stands in the sequence q
Occurrences(q, r) == Cardinality({i \in 1..Len(q) : q[i] = r})

\* the text is a request template with the sample in the place of the payload
IsInjected(text, smp) ==
  \E t \in 1..Len(REQUEST_TEMPLATES) :
    /\ Len(text) = 1 + Len(smp) + (IF REQUEST_TEMPLATES[t].post = "" THEN 0 ELSE 1)
    /\ text[1] = REQUEST_TEMPLATES[t].pre
    /\ SubSeq(text, 2, Len(smp) + 1) = smp
    /\ REQUEST_TEMPLATES[t].post # "" => text[Len(text)] = REQUEST_TEMPLATES[t].post

\* the records collected once every file has been processed
RecordsComplete ==
  ppc \in {"shuffle", "write", "done"} =>
    /\ Len(origin) = Len(all_samples)
    /\ Len(all_samples) = FileSamples("safe") + FileSamples("sqli")
    /\ \A stem \in DOMAIN samples_dir : \A k \in 1..Len(samples_dir[stem]) :
         IsSampleLine(samples_dir[stem][k]) =>
           OriginCount(stem, Strip(samples_dir[stem][k]))
             = SampleCount(stem, Strip(samples_dir[stem][k]))
    /\ \A i \in 1..Len(all_samples) :
         /\ origin[i].label \in DOMAIN samples_dir
         /\ SampleCount(origin[i].label, origin[i].sample) > 0
         /\ all_samples[i].label = origin[i].label
         /\ (all_samples[i].label = "safe" \/ raw) =>
              all_samples[i].text = origin[i].sample
         /\ ~(all_samples[i].label = "safe" \/ raw) =>
              IsInjected(all_samples[i].text, origin[i].sample)

\* the lines written hold the records, one line each, in their order
DatasetWritten ==
  ppc = "done" =>
    /\ Len(dataset) = Len(all_samples)
    /\ \A i \in 1..Len(dataset) : json_loads(dataset[i]) = all_samples[i]

\* C17: prepare_dataset writes exactly one record per line that holds a
\* sample (not empty, not a comment): as many records as samples loaded from
\* all files, each sample of each file giving as many records as it has
\* lines, each record with the stem of its file as label; the text is the
\* sample itself when the label is "safe" or --raw is set and a request
\* template with the sample in the place of the payload otherwise; the
\* shuffle changes nothing but the order of the records; and each line
\* written reads back as its record.
OneRecordPerSample ==
  /\ [](RecordsComplete /\ DatasetWritten)
  /\ [][ppc = "shuffle" =>
          /\ Len(all_samples') = Len(all_samples)
          /\ \A i \in 1..Len(all_samples) :
               /\ Occurrences(all_samples', all_samples[i])
                    = Occurrences(all_samples, all_samples[i])
               /\ Occurrences(all_samples', all_samples'[i])
                    = Occurrences(all_samples, all_samples'[i])]_vars

\* a dataset of three records has been written in another order than they
\* were collected: a safe sample as it is, one payload with a quote and a
\* backslash injected into the login template, one into another template
OneRecordPerSampleWitness ==
  /\ ppc = "done"
  /\ ~raw
  /\ Len(dataset) = 3
  /\ all_samples[3] = [text |-> <<"x">>, label |-> "safe"]
  /\ origin[3].label = "safe"
  /\ all_samples[1].label = "sqli"
  /\ all_samples[1].text = <<"POST /api/login username=", "y", " ", "\"", "\\", "#",
                              "&password=test">>
  /\ dataset[1].text # all_samples[1].text
  /\ all_samples[2].text = <<"GET /download?path=", "x">>
  /\ samples_dir["sqli"] = << <<" ", "x", "\t">>, <<"y", " ", "\"", "\\", "#">> >>

(***************************************************************************)
(* The generation loop                                                      *)
(***************************************************************************)
\* the number of distinct requests generate_request can produce
DistinctRequests == Cardinality(generate_request)

\* the statement as given: the set never holds more than --count requests
\* and holds exactly --count when the loop has ended
GenerationLoopAsStated ==
  /\ Cardinality(requests) <= count
  /\ gpc = "done" => Cardinality(requests) = count

\* C18: the set never holds more than --count requests (none when --count is
\* negative); when the loop has ended it holds exactly --count requests (none
\* when --count is negative), all of them what generate_request produces,
\* and the file holds them as pairwise distinct lines; the loop has ended
\* only if --count does not exceed the number of distinct requests, under
\* fair random choice it does end in that case, and otherwise the program
\* stays in the loop and the file is never written.
GenerationLoop ==
  /\ [](/\ Cardinality(requests) <= Max(count, 0)
        /\ requests \subseteq generate_request)
  /\ [](gpc = "done" =>
          /\ Cardinality(requests) = Max(count, 0)
          /\ count <= DistinctRequests
          /\ output.total = Max(count, 0)
          /\ Len(output.lines) = Max(count, 0)
          /\ Range(output.lines) = requests
          /\ \A i, j \in 1..Len(output.lines) :
               output.lines[i] = output.lines[j] => i = j)
  /\ [](count > DistinctRequests => gpc = "loop" /\ output = <<>>)
  /\ (count <= DistinctRequests) ~> (gpc = "done")

\* the loop has ended with every request generate_request can produce, a
\* POST with an id in the path and a body among them
GenerationLoopWitness ==
  /\ gpc = "done"
  /\ count = DistinctRequests
  /\ requests = generate_request
  /\ <<"POST", " ", "/health", "/", "7", " ", "token=abc123xyz&refresh=true">> \in requests
  /\ Len(output.lines) = 6

(***************************************************************************)
(* download_datasets: one source failing                                    *)
(***************************************************************************)
\* the payloads a source offers where its try block reaches the end (judged
\* while the repositories are still there, before the cleanup)
Offered(i) ==
  IF Failed(i) \/ ~Cloned(i) THEN {}
  ELSE { Strip(sources[i].lines[k]) : k \in 1..sources[i].read }

\* a stripped line longer than 3 characters that does not start with "#"
IsPayload(p) ==
  /\ p # <<>>
  /\ ~IsBlank(p[1]) /\ ~IsBlank(p[Len(p)])
  /\ Len(p) > 3
  /\ p[1] # "#"

\* C19: whatever goes wrong with one source or with both, the run goes on:
\* the other source is processed (its payloads are in the file when its own
\* try block succeeded), suspicious.txt is written, and at the end no
\* temporary repository is left; the payload lines written are pairwise
\* distinct, the total is their number, and each is a stripped line longer
\* than 3 characters that does not start with "#", read from a source whose
\* try block succeeded.
DownloadSurvivesFailure ==
  /\ dpc \in {"source1", "source2", "write", "cleanup", "done"}
  /\ dpc \in {"cleanup", "done"} =>
       /\ suspicious_txt # <<>>
       /\ suspicious_txt.total = Len(suspicious_txt.lines)
       /\ \A i, j \in 1..Len(suspicious_txt.lines) :
            suspicious_txt.lines[i] = suspicious_txt.lines[j] => i = j
       /\ \A k \in 1..Len(suspicious_txt.lines) : IsPayload(suspicious_txt.lines[k])
  /\ dpc = "cleanup" =>
       /\ \A k \in 1..Len(suspicious_txt.lines) :
            \E i \in 1..2 : ~Failed(i) /\ suspicious_txt.lines[k] \in Offered(i)
       /\ \A i \in 1..2 : \A p \in Offered(i) :
            IsPayload(p) => p \in Range(suspicious_txt.lines)
  /\ dpc = "done" => repos = {}
  /\ dpc \in {"source1", "source2", "write"} => suspicious_txt = <<>>

\* the extraction of the first source raised after its repository was
\* cloned; the payloads of the second source are in suspicious.txt, those
\* of the first are not, and both repositories are deleted
DownloadSurvivesFailureWitness ==
  /\ dpc = "done"
  /\ sources[1].fault = "extract"
  /\ sources[1].lines = << <<"'", " ", "o", "r", " ", "1">> >>
  /\ sources[1].read = 1
  /\ sources[2].fault = "none"
  /\ suspicious_txt.total = 2
  /\ Range(suspicious_txt.lines) = { <<"a", "b", "c", "d">>, <<"<", "s", "v", "g", ">">> }
  /\ <<"'", " ", "o", "r", " ", "1">> \notin Range(suspicious_txt.lines)
  /\ repos = {}

====
